---- MODULE Spec2Model ----
(***************************************************************************)
(* injectiny: the #[injectable] attribute macro (injectiny_proc_macro) and *)
(* the runtime it generates code for (Injected<T>, Injectable, Injector).  *)
(*                                                                         *)
(* A path (syn::Path) is the sequence of its segment identifiers.          *)
(* An Option<T> is a sequence of length 0 (None) or 1 (Some(x)).           *)
(***************************************************************************)
EXTENDS Naturals, Sequences, FiniteSets, TLC

VARIABLES
    enumVal,    \* the type-level annotation argument: #[injectable(enumVal)]
    ast,        \* the annotated item: its kind and, per field, its #[inject(..)] argument
    output,     \* the token stream the macro returned (kind "none": not expanded yet)
    holders,    \* the data-holder instances: holders[t][i] is field i's Injected.value
    last,       \* the most recent runtime call and what it returned
    panicked,   \* an unwrap() of None has unwound the program
    mutated,    \* mutated[t]: a write through deref_mut reached holder t
    lastInj,    \* lastInj[t][v]: payload of the most recent inject(v(..)) on holder t
    factories,  \* Injector.factories
    targets,    \* Injector.targets
    counter,    \* counter[p]: invocations of closure p so far (its captured Cell)
    calls,      \* every factory() invocation made by the Injector, in order
    regLog      \* the Injector registrations, in order

genVars == <<enumVal, ast, output>>
runVars == <<holders, last, panicked, mutated, lastInj>>
injVars == <<factories, targets, counter, calls, regLog>>
vars == <<enumVal, ast, output, holders, last, panicked, mutated, lastInj,
          factories, targets, counter, calls, regLog>>

----------------------------------------------------------------------------
(* Bounds and input sets *)

\* at most this many fields in an annotated struct
MaxFields == 2
\* at most this many producers registered with one Injector
MaxFactories == 3

\* the variants of the model enum, and the payloads they carry
Variants == {"Name", "Age"}
Payloads == {1, 2}
\* the data-holder instances of the generated type
Targets == {"t1", "t2"}

\* the closures the program can register: 1 is || Model::Name(1), 2 is
\* || Model::Age(2), 3 is || Model::Name(2), and 4 returns Model::Age(n) from a
\* counter n it captures and advances on every call
Closures == {1, 2, 3, 4}
\* the data-holders in the order the reference run registers them
TargetOrder == <<"t1", "t2">>
\* paths under which the model enum is in scope at the annotated struct
EnumPaths == {<<"Model">>, <<"m", "Model">>}
\* no #[inject] attribute on the field
NoAttr == <<>>
\* arguments written in a field's #[inject(..)]
AttrPaths ==
    { <<"Name">>, <<"Model">>,
      <<"Model", "Name">>, <<"Model", "Age">>, <<"Other", "Name">>, <<"m", "Model">>,
      <<"m", "Model", "Name">>, <<"Model", "Sub", "Name">> }

SeqsUpTo(S, n) == UNION { [1..k -> S] : k \in 0..n }

\* the message of line 53, without its quoting of Enum::Member
ExpectedMsg == "Expected enum member to be of the form Enum::Member"
SameEnumMsg == "All injected fields must be from the same enum"

None == <<>>
Some(x) == <<x>>

----------------------------------------------------------------------------
(* injectiny_proc_macro *)

Min(a, b) == IF a <= b THEN a ELSE b

\* EnumMember::has_enum_name: zip() stops at the shorter of the two paths
has_enum_name(member, path) ==
    \A i \in 1..Min(Len(path), Len(member)) : path[i] = member[i]

ParseOk(path) == [ok |-> TRUE, path |-> path, msg |-> ""]
ParseErr(msg) == [ok |-> FALSE, path |-> <<>>, msg |-> msg]

\* a faulty variant: the length check is dropped
ParseNoLengthCheck(path) == ParseOk(path)

\* impl Parse for EnumMember, on a parenthesized path
ParseEnumMember(path) ==
    IF Len(path) < 2 THEN ParseErr(ExpectedMsg) ELSE ParseOk(path)

\* get_inject_attrib_index: Some(i) iff the field carries an inject attribute
get_inject_attrib_index(attr) == IF attr = NoAttr THEN None ELSE Some(1)

RECURSIVE CollectInjected(_, _)
\* the loop of parse_injected_fields over fields i..Len(fs)
CollectInjected(fs, i) ==
    IF i > Len(fs) THEN <<>>
    ELSE IF get_inject_attrib_index(fs[i]) # None
         THEN <<[field |-> i, attrib |-> fs[i]]>> \o CollectInjected(fs, i + 1)
         ELSE CollectInjected(fs, i + 1)

\* parse_injected_fields: the (field, attribute) pairs of a struct, in declaration
\* order; for any other item the error is built and dropped, and the list is empty
parse_injected_fields(a) ==
    IF a.kind = "struct" THEN CollectInjected(a.fields, 1) ELSE <<>>

\* the item as re-emitted: the collected inject attributes are removed
StrippedAst(a) ==
    IF a.kind = "struct"
    THEN [a EXCEPT !.fields = [i \in 1..Len(a.fields) |-> NoAttr]]
    ELSE a

NoItem == [kind |-> "none", fields |-> <<>>]
NoOutput == [kind |-> "none", msg |-> "", arms |-> <<>>, item |-> NoItem]
\* parse_macro_input! failed: err.to_compile_error() is the whole output
CompileError(msg) ==
    [kind |-> "compile_error", msg |-> msg, arms |-> <<>>, item |-> NoItem]
\* line 106: quote!(syn::Error::new_spanned(..).to_compile_error().into()) returns
\* the tokens of that expression, unevaluated, as the whole output
ErrorExprTokens(msg) ==
    [kind |-> "error_expr_tokens", msg |-> msg, arms |-> <<>>, item |-> NoItem]
\* the re-emitted item followed by impl Injectable<enum_val>, whose inject is the
\* match over `arms` and a trailing default arm
ImplOutput(arms, item) == [kind |-> "impl", msg |-> "", arms |-> arms, item |-> item]

\* matches = quote! { #matches  #member(value) => self.#field_name = ... }
AppendArm(matches, member, field) ==
    Append(matches, [member |-> member, field |-> field])

RECURSIVE BuildMatches(_, _, _, _, _)
\* the for loop of injectable over fields k..Len(fields), and the final quote!
BuildMatches(fields, k, matches, enum_val, item) ==
    IF k > Len(fields) THEN ImplOutput(matches, item)
    ELSE LET member == ParseEnumMember(fields[k].attrib) IN
         IF ~member.ok THEN CompileError(member.msg)
         ELSE IF ~has_enum_name(member.path, enum_val)
              THEN ErrorExprTokens(SameEnumMsg)
              ELSE BuildMatches(fields, k + 1,
                                AppendArm(matches, member.path, fields[k].field),
                                enum_val, item)

\* injectable(attr, input)
injectable(enum_val, a) ==
    BuildMatches(parse_injected_fields(a), 1, <<>>, enum_val, StrippedAst(a))

\* rustc accepts the generated impl: every arm's pattern names a variant
Compiles(out) ==
    /\ out.kind = "impl"
    /\ \A k \in 1..Len(out.arms) :
          \E v \in Variants : out.arms[k].member = enumVal \o <<v>>

Expanded == output.kind # "none"

Asts ==
    { [kind |-> "struct", fields |-> fs] : fs \in SeqsUpTo(AttrPaths \cup {NoAttr}, MaxFields) }
    \cup { [kind |-> k, fields |-> <<>>] : k \in {"enum", "union"} }

Default(a) == [i \in 1..Len(a.fields) |-> None]

Init ==
    /\ enumVal \in EnumPaths
    /\ ast \in Asts
    /\ output = NoOutput
    /\ holders = [t \in Targets |-> Default(ast)]
    /\ last = [op |-> "none", t |-> "", f |-> 0, variant |-> "", payload |-> 0,
               panic |-> FALSE, val |-> <<>>, flag |-> FALSE]
    /\ panicked = FALSE
    /\ mutated = [t \in Targets |-> FALSE]
    /\ lastInj = [t \in Targets |-> [v \in Variants |-> None]]
    /\ factories = <<>>
    /\ targets = <<>>
    /\ counter = [p \in Closures |-> 0]
    /\ calls = <<>>
    /\ regLog = <<>>

\* the compiler expands #[injectable(enumVal)] on the item, once
Injectable ==
    /\ ~Expanded
    /\ output' = injectable(enumVal, ast)
    /\ UNCHANGED <<enumVal, ast, runVars, injVars>>

NextGen == Injectable

SpecGen == Init /\ [][NextGen]_vars

----------------------------------------------------------------------------
(* injectiny: Injected<T> and the generated Injectable::inject *)

\* Injected::from
InjectedFrom(x) == Some(x)

\* Injected::is_injected
is_injected(slot) == slot # None

\* what a call returned: it unwound, or it returned a value
Panic == [panic |-> TRUE, val |-> None]
Returned(x) == [panic |-> FALSE, val |-> Some(x)]

\* a faulty variant: unwrap_or_default() in place of unwrap()
DerefOrDefault(slot) == IF slot = None THEN Returned(0) ELSE Returned(slot[1])

\* Deref::deref and DerefMut::deref_mut: value.as_ref().unwrap()
deref(slot) == IF slot = None THEN Panic ELSE Returned(slot[1])

\* the tagged-union value E::v(x)
Value(v, x) == [variant |-> enumVal \o <<v>>, payload |-> x]

RECURSIVE FirstArm(_, _, _)
\* match: the index of the first arm, from arm k on, whose pattern matches
\* `model`; 0 when only the trailing default arm does
FirstArm(arms, k, model) ==
    IF k > Len(arms) THEN 0
    ELSE IF arms[k].member = model.variant THEN k
         ELSE FirstArm(arms, k + 1, model)

\* a faulty variant: every field of the holder is assigned
InjectAllFields(arms, holder, model) ==
    IF FirstArm(arms, 1, model) = 0 THEN holder
    ELSE [i \in 1..Len(holder) |-> InjectedFrom(model.payload)]

\* the generated inject: match model { #matches  _ => {} }
inject(arms, holder, model) ==
    LET k == FirstArm(arms, 1, model) IN
    IF k = 0 THEN holder
    ELSE [holder EXCEPT ![arms[k].field] = InjectedFrom(model.payload)]

Fields == 1..Len(ast.fields)
NoCall == [op |-> "none", t |-> "", f |-> 0, variant |-> "", payload |-> 0,
           panic |-> FALSE, val |-> None, flag |-> FALSE]
Running == Compiles(output) /\ ~panicked

\* holder.inject(E::v(x)), called by the program itself
Inject(t, v, x) ==
    /\ Running
    /\ holders' = [holders EXCEPT ![t] = inject(output.arms, holders[t], Value(v, x))]
    /\ lastInj' = [lastInj EXCEPT ![t][v] = Some(x)]
    /\ last' = [NoCall EXCEPT !.op = "inject", !.t = t, !.variant = v, !.payload = x]
    /\ UNCHANGED <<genVars, panicked, mutated, injVars>>

\* a faulty variant: the read moves the value out of the slot (value.take().unwrap())
DerefTake(t, i) ==
    /\ Running
    /\ LET r == deref(holders[t][i]) IN
        /\ last' = [NoCall EXCEPT !.op = "deref", !.t = t, !.f = i,
                                   !.panic = r.panic, !.val = r.val]
        /\ panicked' = r.panic
    /\ holders' = [holders EXCEPT ![t][i] = None]
    /\ UNCHANGED <<genVars, mutated, lastInj, injVars>>

\* *holder.f, a read through Deref
Deref(t, i) ==
    /\ Running
    /\ LET r == deref(holders[t][i]) IN
        /\ last' = [NoCall EXCEPT !.op = "deref", !.t = t, !.f = i,
                                   !.panic = r.panic, !.val = r.val]
        /\ panicked' = r.panic
    /\ UNCHANGED <<genVars, holders, mutated, lastInj, injVars>>

\* *holder.f = x, a write through the reference DerefMut returns
DerefMut(t, i, x) ==
    /\ Running
    /\ LET r == deref(holders[t][i]) IN
        /\ last' = [NoCall EXCEPT !.op = "deref_mut", !.t = t, !.f = i, !.payload = x,
                                   !.panic = r.panic, !.val = r.val]
        /\ panicked' = r.panic
        /\ holders' = IF r.panic THEN holders
                      ELSE [holders EXCEPT ![t][i] = Some(x)]
        /\ mutated' = IF r.panic THEN mutated ELSE [mutated EXCEPT ![t] = TRUE]
    /\ UNCHANGED <<genVars, lastInj, injVars>>

\* holder.f.is_injected()
IsInjected(t, i) ==
    /\ Running
    /\ last' = [NoCall EXCEPT !.op = "is_injected", !.t = t, !.f = i,
                               !.flag = is_injected(holders[t][i])]
    /\ UNCHANGED <<genVars, holders, panicked, mutated, lastInj, injVars>>

NextRun ==
    \/ Injectable
    \/ \E t \in Targets, v \in Variants, x \in Payloads : Inject(t, v, x)
    \/ \E t \in Targets, i \in Fields : Deref(t, i)
    \/ \E t \in Targets, i \in Fields, x \in Payloads : DerefMut(t, i, x)
    \/ \E t \in Targets, i \in Fields : IsInjected(t, i)

Spec == Init /\ [][NextRun]_vars

NextInjectOnly ==
    \/ Injectable
    \/ \E t \in Targets, v \in Variants, x \in Payloads : Inject(t, v, x)

\* the runs that make only inject calls on the data-holders
SpecInjectOnly == Init /\ [][NextInjectOnly]_vars

----------------------------------------------------------------------------
(* injectiny: Injector *)

FactoryVariant(p) == IF p \in {1, 3} THEN "Name" ELSE "Age"
Counting(p) == p = 4
ConstPayload(p) == IF p \in {2, 3} THEN 2 ELSE 1

\* factory(): what closure p returns when it has been called n times before
factory(p, n) ==
    Value(FactoryVariant(p), IF Counting(p) THEN (n % 2) + 1 ELSE ConstPayload(p))

Range(q) == { q[k] : k \in 1..Len(q) }

RECURSIVE ToLoop(_, _, _, _, _, _)
\* for factory in &self.factories { target.inject(factory()) }, from factory k on;
\* acc is the target, the closures' counters and the invocation log so far
ToLoop(fs, k, acc, t, ev, arms) ==
    IF k > Len(fs) THEN acc
    ELSE LET p == fs[k]
             val == factory(p, acc.counter[p])
         IN ToLoop(fs, k + 1,
                   [holder |-> inject(arms, acc.holder, val),
                    counter |-> [acc.counter EXCEPT ![p] = @ + 1],
                    calls |-> Append(acc.calls,
                                     [p |-> k, fn |-> p, t |-> t, ev |-> ev, value |-> val])],
                   t, ev, arms)

RECURSIVE InjectLoop(_, _, _, _, _, _, _)
\* for target in self.targets.iter_mut() { target.inject(factory()) }, from
\* target k on; acc is the holders, the closures' counters and the log so far
InjectLoop(ts, k, acc, p, idx, ev, arms) ==
    IF k > Len(ts) THEN acc
    ELSE LET val == factory(p, acc.counter[p]) IN
         InjectLoop(ts, k + 1,
                    [holders |-> [acc.holders EXCEPT ![ts[k]] = inject(arms, @, val)],
                     counter |-> [acc.counter EXCEPT ![p] = @ + 1],
                     calls |-> Append(acc.calls,
                                      [p |-> idx, fn |-> p, t |-> ts[k], ev |-> ev,
                                       value |-> val])],
                    p, idx, ev, arms)

\* a faulty variant: the factory is called once and its result reused for every target
InjectorInjectCached(p) ==
    /\ Running
    /\ Len(factories) < MaxFactories
    /\ factories' = Append(factories, p)
    /\ LET val == factory(p, counter[p])
           ev == Len(regLog) + 1
       IN /\ holders' = [t \in Targets |->
                            IF t \in Range(targets)
                            THEN inject(output.arms, holders[t], val) ELSE holders[t]]
          /\ counter' = IF targets = <<>> THEN counter
                        ELSE [counter EXCEPT ![p] = @ + 1]
          /\ calls' = IF targets = <<>> THEN calls
                      ELSE Append(calls, [p |-> Len(factories) + 1, fn |-> p,
                                          t |-> targets[1], ev |-> ev, value |-> val])
    /\ regLog' = Append(regLog, [kind |-> "inject", id |-> p, t |-> ""])
    /\ UNCHANGED <<genVars, targets, last, panicked, mutated, lastInj>>

\* Injector::inject(factory)
InjectorInject(p) ==
    /\ Running
    /\ Len(factories) < MaxFactories
    /\ factories' = Append(factories, p)
    /\ LET r == InjectLoop(targets, 1,
                           [holders |-> holders, counter |-> counter, calls |-> calls],
                           p, Len(factories) + 1, Len(regLog) + 1, output.arms)
       IN /\ holders' = r.holders
          /\ counter' = r.counter
          /\ calls' = r.calls
    /\ regLog' = Append(regLog, [kind |-> "inject", id |-> p, t |-> ""])
    /\ UNCHANGED <<genVars, targets, last, panicked, mutated, lastInj>>

\* a faulty variant: the target is registered without the earlier factories being called
InjectorToNoInvoke(t) ==
    /\ Running
    /\ t \notin Range(targets)
    /\ targets' = Append(targets, t)
    /\ regLog' = Append(regLog, [kind |-> "to", id |-> 0, t |-> t])
    /\ UNCHANGED <<genVars, holders, counter, calls, factories, last, panicked,
                   mutated, lastInj>>

\* Injector::to(target); a target is borrowed mutably, so it is registered once
InjectorTo(t) ==
    /\ Running
    /\ t \notin Range(targets)
    /\ LET r == ToLoop(factories, 1,
                       [holder |-> holders[t], counter |-> counter, calls |-> calls],
                       t, Len(regLog) + 1, output.arms)
       IN /\ holders' = [holders EXCEPT ![t] = r.holder]
          /\ counter' = r.counter
          /\ calls' = r.calls
    /\ targets' = Append(targets, t)
    /\ regLog' = Append(regLog, [kind |-> "to", id |-> 0, t |-> t])
    /\ UNCHANGED <<genVars, factories, last, panicked, mutated, lastInj>>

NextInjector ==
    \/ Injectable
    \/ \E p \in Closures : InjectorInject(p)
    \/ \E t \in Targets : InjectorTo(t)

\* the runs of one Injector over freshly constructed data-holders
SpecInjector == Init /\ [][NextInjector]_vars

----------------------------------------------------------------------------
(* Properties of the generation pass *)

Annotated == { i \in 1..Len(ast.fields) : ast.fields[i] # NoAttr }
\* the enclosing type of an Enum::Member path: all segments but the last
EnclosingType(path) == SubSeq(path, 1, Len(path) - 1)
WellFormed(i) == Len(ast.fields[i]) >= 2
\* field i is the first annotated field the parser or the validator refuses
FirstRefused(i) ==
    /\ i \in Annotated
    /\ ~WellFormed(i) \/ ~has_enum_name(ast.fields[i], enumVal)
    /\ \A j \in Annotated :
          j < i => WellFormed(j) /\ has_enum_name(ast.fields[j], enumVal)

\* C6: an item that is not a struct gets a diagnostic and no Injectable impl
C6_NonStructRejected ==
    (Expanded /\ ast.kind # "struct") => output.kind = "compile_error"

\* C7: the validator aborts with the same-enum diagnostic as soon as a binding's
\* enclosing type differs from E, and an impl is generated only when the enclosing
\* type of every binding equals E
C7_EnclosingTypeChecked ==
    (Expanded /\ ast.kind = "struct" /\ \A i \in Annotated : WellFormed(i)) =>
        /\ (\E i \in Annotated : EnclosingType(ast.fields[i]) # enumVal)
              => output = CompileError(SameEnumMsg)
        /\ output.kind = "impl"
              => \A i \in Annotated : EnclosingType(ast.fields[i]) = enumVal

\* C8: the parser refuses exactly the paths of fewer than two segments: a refused
\* path leaves the expected-Enum::Member diagnostic as the whole output (no arm,
\* no impl, whatever the other fields are), an accepted path is carried unchanged
\* into its arm
C8_ParserTwoSegments ==
    Expanded =>
        /\ (\E i \in Annotated : ~WellFormed(i))
              => output.kind # "impl" /\ output.arms = <<>> /\ output.item = NoItem
        /\ \A i \in Annotated :
              FirstRefused(i) =>
                 (output = CompileError(ExpectedMsg) <=> ~WellFormed(i))
        /\ output.kind = "impl" =>
              /\ \A i \in Annotated : WellFormed(i)
              /\ Len(output.arms) = Cardinality(Annotated)
              /\ \A k \in 1..Len(output.arms) :
                    /\ output.arms[k].field \in Annotated
                    /\ output.arms[k].member = ast.fields[output.arms[k].field]

\* C8 witness: a one-segment argument after a well-formed field aborted the type
C8_Witness ==
    /\ Expanded
    /\ Len(ast.fields) = 2
    /\ ast.fields[1] = enumVal \o <<"Name">>
    /\ Len(ast.fields[2]) = 1
    /\ output = CompileError(ExpectedMsg)

----------------------------------------------------------------------------
(* Properties of the generated inject and of Injected<T> *)

\* the fields annotated #[inject(E::v)]
BoundFields(v) ==
    { output.arms[k].field : k \in { j \in 1..Len(output.arms) :
                                          output.arms[j].member = enumVal \o <<v>> } }
\* the bindings are over distinct variants
DistinctVariants ==
    \A j, k \in 1..Len(output.arms) :
        j # k => output.arms[j].member # output.arms[k].member

\* C1: with bindings over distinct variants, inject(E::v(x)) leaves the field bound
\* to v holding x and every other field of every holder as it was; with v bound to
\* no field it changes nothing; and it never fails
C1_InjectNoCrossTalk ==
    [][ (last'.op = "inject" /\ DistinctVariants) =>
          /\ \A u \in Targets \ {last'.t} : holders'[u] = holders[u]
          /\ \A i \in Fields :
                holders'[last'.t][i] =
                    IF i \in BoundFields(last'.variant)
                    THEN Some(last'.payload) ELSE holders[last'.t][i]
          /\ panicked' = panicked
          /\ ~last'.panic ]_vars

\* C1 witness: a holder with two bindings took x for one variant while the field
\* of the other variant kept the different payload it held
C1_Witness ==
    /\ last.op = "inject"
    /\ DistinctVariants
    /\ Len(output.arms) = 2
    /\ \E i, j \in Fields :
          /\ i \in BoundFields(last.variant)
          /\ j \notin BoundFields(last.variant)
          /\ holders[last.t][i] = Some(last.payload)
          /\ holders[last.t][j] # None
          /\ holders[last.t][j] # Some(last.payload)

\* C2: after any sequence of inject calls, every field bound to a variant holds the
\* payload of the most recent inject of that variant, and is empty iff there was none
C2_LastWriteWins ==
    Compiles(output) =>
        \A t \in Targets : \A v \in Variants : \A i \in BoundFields(v) :
            holders[t][i] = lastInj[t][v]

\* C5: a read or a mutable access of an empty slot unwinds and returns nothing, a
\* populated slot returns what it holds, and is_injected is false exactly for the
\* empty slots
C5_EmptyReadPanics ==
    /\ last.op \in {"deref", "deref_mut"} =>
          /\ last.panic <=> holders[last.t][last.f] = None
          /\ last.panic => last.val = None /\ panicked
          /\ ~last.panic => last.val # None
    /\ last.op = "deref" /\ ~last.panic => last.val = holders[last.t][last.f]
    /\ last.op = "is_injected" => (last.flag <=> holders[last.t][last.f] # None)

\* C5 witness: a field with a binding, read on a holder nothing was injected into
C5_Witness ==
    /\ last.op = "deref"
    /\ last.panic
    /\ \E v \in Variants : last.f \in BoundFields(v)
    /\ \A v \in Variants : lastInj[last.t][v] = None

\* C9 as stated: a field changes only in an inject call on its holder
C9_OnlyInjectChangesFields ==
    [][ \A t \in Targets :
            holders'[t] # holders[t] => last'.op = "inject" /\ last'.t = t ]_vars

\* C9 amended: a field changes only in an inject call on its holder, or in a write
\* through deref_mut of that very field while it is populated, which leaves it
\* populated
C9_InjectOrDerefMut ==
    [][ \A t \in Targets : \A i \in Fields :
            holders'[t][i] # holders[t][i] =>
                \/ last'.op = "inject" /\ last'.t = t
                \/ /\ last'.op = "deref_mut" /\ last'.t = t /\ last'.f = i
                   /\ holders[t][i] # None
                   /\ holders'[t][i] # None ]_vars

\* C9 witness: after a write through deref_mut a bound field holds a payload that
\* was never injected into its holder
C9_Witness ==
    /\ last.op = "deref_mut"
    /\ ~last.panic
    /\ holders[last.t][last.f] = Some(last.payload)
    /\ \E v \in Variants :
          /\ last.f \in BoundFields(v)
          /\ lastInj[last.t][v] # Some(last.payload)

Perms(n) == { q \in [1..n -> 1..n] : \A j, k \in 1..n : j # k => q[j] # q[k] }

\* C10: the arms are in field declaration order, and with the arms in any other
\* order inject has the same effect on every holder for every value
C10_ArmOrderIrrelevant ==
    Compiles(output) =>
        /\ \A k \in 1..(Len(output.arms) - 1) :
              output.arms[k].field < output.arms[k + 1].field
        /\ \A q \in Perms(Len(output.arms)) :
              \A t \in Targets, v \in Variants, x \in Payloads :
                  inject([k \in 1..Len(output.arms) |-> output.arms[q[k]]],
                         holders[t], Value(v, x))
                    = inject(output.arms, holders[t], Value(v, x))

----------------------------------------------------------------------------
(* Properties of the Injector *)

Max(a, b) == IF a >= b THEN a ELSE b
\* the registration in which the i-th producer, or target t, was registered
ProducerEvent(i) ==
    CHOOSE e \in 1..Len(regLog) :
        /\ regLog[e].kind = "inject"
        /\ Cardinality({ d \in 1..e : regLog[d].kind = "inject" }) = i
TargetEvent(t) ==
    CHOOSE e \in 1..Len(regLog) : regLog[e].kind = "to" /\ regLog[e].t = t
CallsOf(i, t) == { c \in 1..Len(calls) : calls[c].p = i /\ calls[c].t = t }

RECURSIVE Replay(_, _, _)
\* holder t after the logged results for t, from call c on, are injected in order
Replay(c, t, holder) ==
    IF c > Len(calls) THEN holder
    ELSE Replay(c + 1, t,
                IF calls[c].t = t THEN inject(output.arms, holder, calls[c].value)
                ELSE holder)

\* C3: every (registered producer, registered target) pair has exactly one
\* invocation, made during the later of the two registrations, and its result is
\* injected into that target; nothing else is invoked, so a producer has run once
\* per target it is paired with
C3_OncePerPair ==
    /\ \A i \in 1..Len(factories) : \A t \in Range(targets) :
          /\ Cardinality(CallsOf(i, t)) = 1
          /\ \A c \in CallsOf(i, t) :
                /\ calls[c].ev = Max(ProducerEvent(i), TargetEvent(t))
                /\ calls[c].fn = factories[i]
    /\ Len(calls) = Len(factories) * Len(targets)
    /\ \A p \in Closures :
          counter[p] = Cardinality({ c \in 1..Len(calls) : calls[c].fn = p })
    /\ \A t \in Targets : holders[t] = Replay(1, t, Default(ast))

\* C3 witness: a target, a producer, a second target and a second producer were
\* registered in that order, so the first producer has run twice
C3_Witness ==
    /\ Len(regLog) = 4
    /\ regLog[1].kind = "to" /\ regLog[2].kind = "inject"
    /\ regLog[3].kind = "to" /\ regLog[4].kind = "inject"
    /\ counter[factories[1]] >= 2
    /\ Len(output.arms) >= 1

RECURSIVE SortedBy(_, _)
\* the registered closures in ascending order, from closure p on
SortedBy(fs, p) ==
    IF p \notin Closures THEN <<>>
    ELSE SelectSeq(fs, LAMBDA f : f = p) \o SortedBy(fs, p + 1)

RECURSIVE ReferenceRun(_, _, _)
\* the holders after the reference ordering: every inject call first, closures
\* ascending, then the to calls in TargetOrder, from target k on
ReferenceRun(fs, k, acc) ==
    IF k > Len(TargetOrder) THEN acc.holders
    ELSE IF TargetOrder[k] \notin Range(targets) THEN ReferenceRun(fs, k + 1, acc)
    ELSE LET t == TargetOrder[k]
             r == ToLoop(fs, 1, [holder |-> Default(ast), counter |-> acc.counter,
                                 calls |-> <<>>], t, 0, output.arms)
         IN ReferenceRun(fs, k + 1,
                         [holders |-> [acc.holders EXCEPT ![t] = r.holder],
                          counter |-> r.counter])

Reference ==
    ReferenceRun(SortedBy(factories, 1), 1,
                 [holders |-> [t \in Targets |-> Default(ast)],
                  counter |-> [p \in Closures |-> 0]])

PureDistinctProducers ==
    /\ \A k \in 1..Len(factories) : ~Counting(factories[k])
    /\ \A j, k \in 1..Len(factories) :
          j # k => FactoryVariant(factories[j]) # FactoryVariant(factories[k])

====
